---- MODULE Spec2Model ----
(***************************************************************************)
(* A model of three components of the storage engine:                      *)
(*   - LRUKReplacer       (src/src/buffer/lru_k_replacer.cpp, second copy   *)
(*                         of the file, lines 76-215; the first copy is the *)
(*                         same Evict with the other methods left empty)    *)
(*   - BufferPoolManager  (src/unnamed/part_000, lines 1-245)               *)
(*   - Trie               (src/unnamed/part_000, lines 247-445)             *)
(* Four specifications share the variables:                                 *)
(*   SpecReplacer : the replacer driven directly by its public methods      *)
(*   Spec         : the buffer pool manager (which drives its replacer)     *)
(*   SpecBytes    : the buffer pool manager with callers writing page bytes *)
(*   SpecTrie     : the copy-on-write trie                                  *)
(***************************************************************************)
EXTENDS Integers, Sequences, FiniteSets, TLC

VARIABLES
    replacer_,      \* LRUKReplacer: [node_store_, current_timestamp_, curr_size_, k_]
    pages_,         \* BufferPoolManager::pages_: frame -> Page metadata and bytes
    page_table_,    \* BufferPoolManager::page_table_: resident page id -> frame
    free_list_,     \* BufferPoolManager::free_list_ (std::list, used at its back)
    next_page_id_,  \* BufferPoolManager::next_page_id_
    disk,           \* the DiskManager's pages: page id -> bytes
    latch_,         \* BufferPoolManager::latch_: the set of its owners ({} or {t})
    pc,             \* per thread: where it is inside a buffer pool call
    evicted,        \* history: page id -> bytes of the dirty page a call dealt with
    pins,           \* history: page id -> pins handed to callers and not yet returned
    root_,          \* Trie::root_ of the current Trie: <<>> if null, else <<node>>
    nodes,          \* the TrieNode objects of the heap, by address (SpecHeap)
    lru,            \* a reference LRU replacer given the same calls (SpecLRU)
    rwlatch_,       \* Page::rwlatch_ of each frame: its readers and its writer
    latching,       \* per thread: the frame its guard helper is about to latch
    nops,           \* number of trie operations applied so far
    last            \* history: the last call, its arguments and its result

vars == <<replacer_, pages_, page_table_, free_list_, next_page_id_, disk,
          latch_, pc, evicted, pins, root_, nodes, lru, rwlatch_, latching,
          nops, last>>

(***************************************************************************)
(* Bounds of the model.                                                    *)
(***************************************************************************)
\* number of frames: pool_size of the buffer pool, num_frames of the replacer
PoolSize == 2
\* the K of LRU-K (replacer_k)
K == 2
\* RecordAccess is not taken once current_timestamp_ has reached MaxTime
MaxTime == 4
\* page ids handed to the calls are 0 .. MaxPage-1 (and INVALID_PAGE_ID)
MaxPage == 3
\* trie keys are strings over Chars of length 0 .. MaxKeyLen
MaxKeyLen == 2
\* number of Put/Remove calls applied to the trie
MaxOps == 3

Frames  == 0 .. (PoolSize - 1)
PageIds == 0 .. (MaxPage - 1)
\* page bytes, abstracted: 0 is zeroed memory (ResetMemory), 1 other content
Data    == {0, 1}
\* the threads that call into the buffer pool
Threads == {1}

\* common/config.h: INVALID_PAGE_ID, also the initial victim_frame of Evict
INVALID_PAGE_ID == -1
\* stands for std::numeric_limits<size_t>::max(): above every k_dis
SizeMax == 2147483647

\* what a call that returns nullptr reports as its frame
NoFrame == INVALID_PAGE_ID

\* std::list front() and back()
Front(s) == s[1]
Back(s)  == s[Len(s)]

\* std::unordered_map as a function on its keys: find, erase, operator[]=
Has(m, key) == key \in DOMAIN m
Erase(m, key) == [x \in DOMAIN m \ {key} |-> m[x]]
Store(m, key, value) ==
    [x \in DOMAIN m \cup {key} |-> IF x = key THEN value ELSE m[x]]
EmptyMap == [x \in {} |-> 0]

(***************************************************************************)
(* LRUKReplacer                                                            *)
(***************************************************************************)
\* a node as RecordAccess creates it: empty history, not evictable
LRUKNode == [history_ |-> <<>>, is_evictable_ |-> FALSE]

\* the replacer after LRUKReplacer(num_frames, k)
NewReplacer(k) ==
    [node_store_        |-> EmptyMap,
     current_timestamp_ |-> 0,
     curr_size_         |-> 0,
     k_                 |-> k]

ReplacerInit == NewReplacer(K)

Tracked(r) == DOMAIN r.node_store_

\* the frame_id checks of RecordAccess, SetEvictable and Remove
InvalidFrame(frame_id) == frame_id >= PoolSize

\* RecordAccess dropping the new timestamp instead of the oldest one
RecordAccessKeepsOldest(r, frame_id) ==
    LET node == IF ~Has(r.node_store_, frame_id)
                THEN LRUKNode ELSE r.node_store_[frame_id]
        pushed == Append(node.history_, r.current_timestamp_)
        kept == IF Len(pushed) > r.k_
                THEN SubSeq(pushed, 1, Len(pushed) - 1) ELSE pushed
    IN  [r EXCEPT !.node_store_ =
                      Store(@, frame_id, [node EXCEPT !.history_ = kept]),
                  !.current_timestamp_ = @ + 1]

RecordAccess(r, frame_id) ==
    LET node == IF ~Has(r.node_store_, frame_id)
                THEN LRUKNode ELSE r.node_store_[frame_id]
        pushed == Append(node.history_, r.current_timestamp_)
        kept == IF Len(pushed) > r.k_ THEN Tail(pushed) ELSE pushed
    IN  [r EXCEPT !.node_store_ =
                      Store(@, frame_id, [node EXCEPT !.history_ = kept]),
                  !.current_timestamp_ = @ + 1]

\* SetEvictable without its test for a transition: every call counts
SetEvictableEveryCall(r, frame_id, set_evictable) ==
    IF ~Has(r.node_store_, frame_id) THEN r
    ELSE [r EXCEPT !.node_store_[frame_id].is_evictable_ = set_evictable,
                   !.curr_size_ = IF set_evictable THEN @ + 1 ELSE @ - 1]

SetEvictable(r, frame_id, set_evictable) ==
    IF ~Has(r.node_store_, frame_id) THEN r
    ELSE IF r.node_store_[frame_id].is_evictable_ # set_evictable
         THEN [r EXCEPT !.node_store_[frame_id].is_evictable_ = set_evictable,
                        !.curr_size_ = IF set_evictable THEN @ + 1 ELSE @ - 1]
         ELSE r

\* Remove that forgets nothing
RemoveLeftOut(r, frame_id) == r

Remove(r, frame_id) ==
    IF ~Has(r.node_store_, frame_id) THEN r
    ELSE [r EXCEPT !.node_store_ = Erase(@, frame_id),
                   !.curr_size_ = IF r.node_store_[frame_id].is_evictable_
                                  THEN @ - 1 ELSE @]

Size(r) == r.curr_size_

\* the test at the head of Evict's loop body: non-evictable nodes are skipped
Skipped(node) == ~node.is_evictable_

\* the timestamp Evict subtracts from current_timestamp_ for a node with K accesses
KDistance(r, node) == r.current_timestamp_ - Back(node.history_)

\* one iteration of Evict's loop, on frame f; acc is (flag, victim_frame, max_k_dis)
EvictVisit(r, f, acc) ==
    LET node == r.node_store_[f] IN
    IF Skipped(node) THEN acc
    ELSE IF Len(node.history_) < r.k_
    THEN IF \/ ~acc.flag
            \/ Front(node.history_) <
                   Front(r.node_store_[acc.victim_frame].history_)
         THEN [flag |-> TRUE, victim_frame |-> f, max_k_dis |-> SizeMax]
         ELSE acc
    ELSE IF KDistance(r, node) > acc.max_k_dis
         THEN [flag |-> TRUE, victim_frame |-> f,
               max_k_dis |-> KDistance(r, node)]
         ELSE acc

\* Evict's loop over node_store_, visiting the frames in the sequence order
RECURSIVE EvictScan(_, _, _)
EvictScan(r, order, acc) ==
    IF order = <<>> THEN acc
    ELSE EvictScan(r, Tail(order), EvictVisit(r, Head(order), acc))

\* node_store_ is a std::unordered_map: its iteration order is unspecified,
\* so a scan may visit the tracked frames in any order
ScanOrders(r) ==
    LET S == Tracked(r) IN
    {o \in [1 .. Cardinality(S) -> S] :
        \A i, j \in 1 .. Cardinality(S) : i # j => o[i] # o[j]}

\* Evict under one scan order: [ok, frame_id, r] (r is the replacer afterwards)
Evict(r, order) ==
    IF r.curr_size_ = 0
    THEN [ok |-> FALSE, frame_id |-> INVALID_PAGE_ID, r |-> r]
    ELSE LET acc == EvictScan(r, order,
                       [flag |-> FALSE, victim_frame |-> INVALID_PAGE_ID,
                        max_k_dis |-> 0])
         IN  IF acc.flag
             THEN [ok |-> TRUE, frame_id |-> acc.victim_frame,
                   r |-> [r EXCEPT !.node_store_ = Erase(@, acc.victim_frame),
                                   !.curr_size_ = @ - 1]]
             ELSE [ok |-> FALSE, frame_id |-> INVALID_PAGE_ID, r |-> r]


(***************************************************************************)
(* A reference LRU replacer: the tracked frames in the order of their most *)
(* recent access (least recent first) and the evictable ones among them.   *)
(* alive is FALSE once a call has aborted the process.                     *)
(***************************************************************************)
NewLru == [order |-> <<>>, evictable |-> {}, alive |-> TRUE]

LruTracked(l) == {l.order[i] : i \in 1 .. Len(l.order)}

LruWithout(order, frame_id) ==
    SelectSeq(order, LAMBDA f : f # frame_id)

LruRecordAccess(l, frame_id) ==
    [l EXCEPT !.order = Append(LruWithout(@, frame_id), frame_id)]

LruSetEvictable(l, frame_id, set_evictable) ==
    IF frame_id \notin LruTracked(l) THEN l
    ELSE [l EXCEPT !.evictable = IF set_evictable THEN @ \cup {frame_id}
                                 ELSE @ \ {frame_id}]

LruRemove(l, frame_id) ==
    IF frame_id \notin LruTracked(l) THEN l
    ELSE IF frame_id \notin l.evictable THEN [l EXCEPT !.alive = FALSE]
    ELSE [l EXCEPT !.order = LruWithout(@, frame_id),
                   !.evictable = @ \ {frame_id}]

\* the victim: the evictable frame whose most recent access is the oldest
LruEvict(l) ==
    LET candidates == SelectSeq(l.order, LAMBDA f : f \in l.evictable) IN
    IF candidates = <<>>
    THEN [ok |-> FALSE, frame_id |-> INVALID_PAGE_ID, l |-> l]
    ELSE [ok |-> TRUE, frame_id |-> candidates[1],
          l |-> [l EXCEPT !.order = LruWithout(@, candidates[1]),
                          !.evictable = @ \ {candidates[1]}]]


(***************************************************************************)
(* BufferPoolManager                                                       *)
(***************************************************************************)
\* a Page as the constructor leaves it (storage/page/page.h defaults)
EmptyPage ==
    [page_id_ |-> INVALID_PAGE_ID, pin_count_ |-> 0, is_dirty_ |-> FALSE,
     data_ |-> 0]

\* a Page's reader-writer latch that nobody holds
Unlatched == [readers |-> {}, writer |-> {}]

\* the constructor's loop: free_list_.emplace_back(i) for i = 0 .. pool_size_-1
InitialFreeList == [i \in 1 .. PoolSize |-> i - 1]

\* page_table_.find(page_id) != page_table_.end()
InTable(pt, page_id) == Has(pt, page_id)

\* page_table_.erase(page_id): nothing happens for a key that is not there
TableErase(pt, page_id) == Erase(pt, page_id)

\* page_table_.emplace(page_id, frame_id): an existing key keeps its frame
TableEmplace(pt, page_id, frame_id) ==
    IF Has(pt, page_id) THEN pt ELSE Store(pt, page_id, frame_id)

\* NoFrameAvailable without its look at the free list
NoFrameAvailableWithoutFreeList(free, r) == Size(r) = 0

\* the first test of NewPage and of FetchPage's miss path
NoFrameAvailable(free, r) == free = <<>> /\ Size(r) = 0

\* the choice of the host frame: the back of the free list, else Evict
PickFrame(free, r, order) ==
    IF free # <<>>
    THEN [ok |-> TRUE, frame_id |-> Back(free),
          free |-> SubSeq(free, 1, Len(free) - 1), r |-> r,
          from_evict |-> FALSE]
    ELSE LET e == Evict(r, order)
         IN  [ok |-> e.ok, frame_id |-> e.frame_id, free |-> free, r |-> e.r,
              from_evict |-> TRUE]

\* WriteBack without the write: the dirty victim's bytes are dropped
WriteBackLeftOut(d, page) == d

\* if (page->IsDirty()) disk_manager_->WritePage(page->GetPageId(), page->GetData())
WriteBack(d, page) ==
    IF page.is_dirty_ THEN [d EXCEPT ![page.page_id_] = page.data_] ELSE d

\* ... page->is_dirty_ = false, inside the same if
AfterWriteBack(page) ==
    IF page.is_dirty_ THEN [page EXCEPT !.is_dirty_ = FALSE] ELSE page

\* history: the last call and what it returned (page_id: the id NewPage
\* stored through its argument, or the id of the page FetchPage returned)
Result(op, ok, page_id, frame_id, from_evict, wrote_back) ==
    [op |-> op, ok |-> ok, page_id |-> page_id, frame_id |-> frame_id,
     from_evict |-> from_evict, wrote_back |-> wrote_back]

Returned(op, ok) == Result(op, ok, INVALID_PAGE_ID, NoFrame, FALSE, FALSE)

\* a call whose whole body runs under std::lock_guard<std::mutex> lock(latch_)
CanLock(t) == pc[t] = "idle" /\ latch_ = {}

NewPageFails ==
    /\ last' = Returned("NewPage", FALSE)
    /\ UNCHANGED <<replacer_, pages_, page_table_, free_list_, next_page_id_,
                   disk>>

NewPage(t) ==
    /\ CanLock(t)
    /\ next_page_id_ < MaxPage
    /\ replacer_.current_timestamp_ < MaxTime
    /\ IF NoFrameAvailable(free_list_, replacer_)
       THEN NewPageFails
       ELSE \E order \in ScanOrders(replacer_) :
            LET h == PickFrame(free_list_, replacer_, order) IN
            IF ~h.ok
            THEN NewPageFails
            ELSE LET frame_id == h.frame_id
                     page == pages_[frame_id]
                     page_id == next_page_id_
                 IN  /\ disk' = WriteBack(disk, page)
                     /\ next_page_id_' = next_page_id_ + 1
                     /\ page_table_' =
                            TableEmplace(TableErase(page_table_, page.page_id_),
                                         page_id, frame_id)
                     /\ pages_' = [pages_ EXCEPT ![frame_id] =
                            [AfterWriteBack(page) EXCEPT
                                !.page_id_ = page_id, !.pin_count_ = 1,
                                !.data_ = 0]]
                     /\ replacer_' =
                            RecordAccess(SetEvictable(h.r, frame_id, FALSE),
                                         frame_id)
                     /\ free_list_' = h.free
                     /\ last' = Result("NewPage", TRUE, page_id, frame_id,
                                       h.from_evict, page.is_dirty_)
    /\ UNCHANGED <<latch_, pc, root_, nodes, lru, rwlatch_, latching, nops>>

FetchPageFails ==
    /\ last' = Returned("FetchPage", FALSE)
    /\ UNCHANGED <<replacer_, pages_, page_table_, free_list_, next_page_id_,
                   disk>>

\* FetchPage from its first line to its return, without the caller's frame
FetchPageBody(t, page_id) ==
    /\ pc[t] = "idle"
    /\ IF page_id = INVALID_PAGE_ID
       THEN FetchPageFails
       ELSE /\ latch_ = {}
            /\ replacer_.current_timestamp_ < MaxTime
            /\ IF InTable(page_table_, page_id)
               THEN LET frame_id == page_table_[page_id] IN
                    /\ replacer_' =
                           SetEvictable(RecordAccess(replacer_, frame_id),
                                        frame_id, FALSE)
                    /\ pages_' = [pages_ EXCEPT ![frame_id].pin_count_ = @ + 1]
                    /\ last' = Result("FetchPage", TRUE, page_id, frame_id,
                                      FALSE, FALSE)
                    /\ UNCHANGED <<page_table_, free_list_, next_page_id_, disk>>
               ELSE IF NoFrameAvailable(free_list_, replacer_)
               THEN FetchPageFails
               ELSE \E order \in ScanOrders(replacer_) :
                    LET h == PickFrame(free_list_, replacer_, order) IN
                    IF ~h.ok
                    THEN FetchPageFails
                    ELSE LET frame_id == h.frame_id
                             page == pages_[frame_id]
                         IN  /\ disk' = WriteBack(disk, page)
                             /\ page_table_' =
                                    TableEmplace(
                                        TableErase(page_table_, page.page_id_),
                                        page_id, frame_id)
                             /\ pages_' = [pages_ EXCEPT ![frame_id] =
                                    [AfterWriteBack(page) EXCEPT
                                        !.page_id_ = page_id, !.pin_count_ = 1,
                                        !.data_ = disk'[page_id]]]
                             /\ replacer_' =
                                    SetEvictable(RecordAccess(h.r, frame_id),
                                                 frame_id, FALSE)
                             /\ free_list_' = h.free
                             /\ last' = Result("FetchPage", TRUE, page_id,
                                               frame_id, h.from_evict,
                                               page.is_dirty_)
                             /\ UNCHANGED next_page_id_

FetchPage(t, page_id) ==
    /\ FetchPageBody(t, page_id)
    /\ UNCHANGED <<latch_, pc, root_, nodes, lru, rwlatch_, latching, nops>>

\* NoPinToReturn without the test: UnpinPage decrements whatever the count is
NoPinToReturnLeftOut(page) == FALSE

\* UnpinPage's test of the pin count: if (page->pin_count_ <= 0) return false
NoPinToReturn(page) == page.pin_count_ <= 0

\* UnpinPage never telling the replacer that the last pin is gone
ReleaseFrameLeftOut(r, frame_id, pin_count_) == r

\* if (page->pin_count_ == 0) replacer_->SetEvictable(frame_id, true)
ReleaseFrame(r, frame_id, pin_count_) ==
    IF pin_count_ = 0 THEN SetEvictable(r, frame_id, TRUE) ELSE r

\* UnpinPage storing its argument instead of or-ing it into the flag
DirtyAfterUnpinOverwritten(page, is_dirty) == is_dirty

\* page->is_dirty_ = page->is_dirty_ || is_dirty
DirtyAfterUnpin(page, is_dirty) == page.is_dirty_ \/ is_dirty

UnpinPage(t, page_id, is_dirty) ==
    /\ pc[t] = "idle"
    /\ IF page_id = INVALID_PAGE_ID
       THEN /\ last' = Returned("UnpinPage", FALSE)
            /\ UNCHANGED <<replacer_, pages_>>
       ELSE /\ latch_ = {}
            /\ IF ~InTable(page_table_, page_id)
               THEN /\ last' = Returned("UnpinPage", FALSE)
                    /\ UNCHANGED <<replacer_, pages_>>
               ELSE LET frame_id == page_table_[page_id]
                        page == pages_[frame_id]
                    IN  IF NoPinToReturn(page)
                        THEN /\ last' = Returned("UnpinPage", FALSE)
                             /\ UNCHANGED <<replacer_, pages_>>
                        ELSE /\ pages_' = [pages_ EXCEPT ![frame_id] =
                                    [page EXCEPT
                                        !.pin_count_ = @ - 1,
                                        !.is_dirty_ =
                                            DirtyAfterUnpin(page, is_dirty)]]
                             /\ replacer_' =
                                    ReleaseFrame(replacer_, frame_id,
                                                 page.pin_count_ - 1)
                             /\ last' = Returned("UnpinPage", TRUE)
    /\ UNCHANGED <<page_table_, free_list_, next_page_id_, disk, latch_, pc,
                   root_, nodes, lru, rwlatch_, latching, nops>>

FlushPage(t, page_id) ==
    /\ CanLock(t)
    /\ IF ~InTable(page_table_, page_id)
       THEN /\ last' = Returned("FlushPage", FALSE)
            /\ UNCHANGED <<pages_, disk>>
       ELSE LET frame_id == page_table_[page_id] IN
            /\ disk' = [disk EXCEPT ![page_id] = pages_[frame_id].data_]
            /\ pages_' = [pages_ EXCEPT ![frame_id].is_dirty_ = FALSE]
            /\ last' = Returned("FlushPage", TRUE)
    /\ UNCHANGED <<replacer_, page_table_, free_list_, next_page_id_, latch_,
                   pc, root_, nodes, lru, rwlatch_, latching, nops>>

\* FlushAllPages, first line: std::lock_guard<std::mutex> lock(latch_)
FlushAllPagesLock(t) ==
    /\ CanLock(t)
    /\ latch_' = {t}
    /\ pc' = [pc EXCEPT ![t] = "FlushAllPages_loop"]
    /\ last' = Returned("FlushAllPages", FALSE)
    /\ UNCHANGED <<replacer_, pages_, page_table_, free_list_, next_page_id_,
                   disk, root_, nodes, lru, rwlatch_, latching, nops>>

\* FlushAllPages, the loop over page_table_: with no entry the loop body never
\* runs and the lock_guard releases latch_ on return; with an entry the first
\* iteration calls FlushPage while latch_ is still held
FlushAllPagesLoop(t) ==
    /\ pc[t] = "FlushAllPages_loop"
    /\ latch_ = {t}
    /\ IF DOMAIN page_table_ = {}
       THEN /\ latch_' = {}
            /\ pc' = [pc EXCEPT ![t] = "idle"]
            /\ last' = Returned("FlushAllPages", TRUE)
       ELSE /\ pc' = [pc EXCEPT ![t] = "FlushPage_lock"]
            /\ UNCHANGED <<latch_, last>>
    /\ UNCHANGED <<replacer_, pages_, page_table_, free_list_, next_page_id_,
                   disk, root_, nodes, lru, rwlatch_, latching, nops>>

\* FlushPage called from FlushAllPages: its lock_guard locks the std::mutex the
\* calling thread already owns. That is undefined behaviour: the thread blocks
\* forever on the mutex, or the library detects the relock and throws
\* std::system_error, which nothing catches, and the process terminates.
RelockOutcomes == {"deadlocked", "terminated"}

FlushPageRelock(t) ==
    /\ pc[t] = "FlushPage_lock"
    /\ latch_ = {t}
    /\ \E outcome \in RelockOutcomes : pc' = [pc EXCEPT ![t] = outcome]
    /\ UNCHANGED <<replacer_, pages_, page_table_, free_list_, next_page_id_,
                   disk, latch_, root_, nodes, lru,
                   rwlatch_, latching, nops, last>>

DeletePage(t, page_id) ==
    /\ CanLock(t)
    /\ IF ~InTable(page_table_, page_id)
       THEN /\ last' = Returned("DeletePage", TRUE)
            /\ UNCHANGED <<replacer_, pages_, page_table_, free_list_>>
       ELSE LET frame_id == page_table_[page_id] IN
            IF pages_[frame_id].pin_count_ > 0
            THEN /\ last' = Returned("DeletePage", FALSE)
                 /\ UNCHANGED <<replacer_, pages_, page_table_, free_list_>>
            ELSE /\ page_table_' = TableErase(page_table_, page_id)
                 /\ replacer_' = Remove(replacer_, frame_id)
                 /\ free_list_' = Append(free_list_, frame_id)
                 /\ pages_' = [pages_ EXCEPT ![frame_id] = EmptyPage]
                 /\ last' = Returned("DeletePage", TRUE)
    /\ UNCHANGED <<next_page_id_, disk, latch_, pc, root_, nodes, lru,
                   rwlatch_, latching, nops>>

\* the state after construction, on a database file of zeroed pages
Init ==
    /\ replacer_ = ReplacerInit
    /\ pages_ = [f \in Frames |-> EmptyPage]
    /\ page_table_ = EmptyMap
    /\ free_list_ = InitialFreeList
    /\ next_page_id_ = 0
    /\ disk = [p \in PageIds |-> 0]
    /\ latch_ = {}
    /\ pc = [t \in Threads |-> "idle"]
    /\ evicted = EmptyMap
    /\ pins = [p \in PageIds |-> 0]
    /\ root_ = <<>>
    /\ nodes = <<>>
    /\ lru = NewLru
    /\ rwlatch_ = [f \in Frames |-> Unlatched]
    /\ latching = [t \in Threads |-> <<>>]
    /\ nops = 0
    /\ last = Returned("Init", TRUE)

CallPageIds == PageIds \cup {INVALID_PAGE_ID}

\* history: a successful NewPage or FetchPage hands the caller a pin on the
\* page, a successful UnpinPage takes one back
PinTaken(page_id) == [pins EXCEPT ![page_id] = @ + 1]
PinReturned(page_id) ==
    IF pins[page_id] > 0 THEN [pins EXCEPT ![page_id] = @ - 1] ELSE pins

Next ==
    \/ \E t \in Threads :
           /\ NewPage(t)
           /\ pins' = IF last'.ok THEN PinTaken(last'.page_id) ELSE pins
           /\ UNCHANGED evicted
    \/ \E t \in Threads, page_id \in CallPageIds :
           /\ FetchPage(t, page_id)
           /\ pins' = IF last'.ok THEN PinTaken(page_id) ELSE pins
           /\ UNCHANGED evicted
    \/ \E t \in Threads, page_id \in CallPageIds, is_dirty \in BOOLEAN :
           /\ UnpinPage(t, page_id, is_dirty)
           /\ pins' = IF last'.ok THEN PinReturned(page_id) ELSE pins
           /\ UNCHANGED evicted
    \/ \E t \in Threads, page_id \in CallPageIds :
           FlushPage(t, page_id) /\ UNCHANGED <<evicted, pins>>
    \/ \E t \in Threads : FlushAllPagesLock(t) /\ UNCHANGED <<evicted, pins>>
    \/ \E t \in Threads : FlushAllPagesLoop(t) /\ UNCHANGED <<evicted, pins>>
    \/ \E t \in Threads : FlushPageRelock(t) /\ UNCHANGED <<evicted, pins>>
    \/ \E t \in Threads, page_id \in CallPageIds :
           DeletePage(t, page_id) /\ UNCHANGED <<evicted, pins>>

Spec == Init /\ [][Next]_vars

(***************************************************************************)
(* The buffer pool with the bytes of its pages: NewPage, FetchPage,        *)
(* UnpinPage and FlushPage, callers that write a page they hold a pin on,  *)
(* and the record (evicted) of what a dirty page held when its frame was   *)
(* reassigned.  DeletePage is left out (it drops a page without writing    *)
(* it), and so is FlushAllPages (it changes no page before it stops).      *)
(***************************************************************************)
\* a caller that holds a pin on the page in frame frame_id writes its bytes
\* (through Page::GetData() of the pointer NewPage or FetchPage returned)
CallerWrite(t, frame_id, bytes) ==
    /\ pc[t] = "idle"
    /\ pages_[frame_id].pin_count_ > 0
    /\ pages_[frame_id].data_ # bytes
    /\ pages_' = [pages_ EXCEPT ![frame_id].data_ = bytes]
    /\ UNCHANGED <<replacer_, page_table_, free_list_, next_page_id_, disk,
                   evicted, pins, latch_, pc, root_, nodes, lru,
                   rwlatch_, latching, nops, last>>

\* history: after a call that reassigned a frame, the bytes the frame's old page
\* had if it was dirty (no record if it was clean); a page NewPage creates
\* starts without a record
NoteEviction ==
    IF last'.op \in {"NewPage", "FetchPage"} /\ last'.ok
    THEN LET page == pages_[last'.frame_id]
             ev == IF ~last'.from_evict
                   THEN evicted
                   ELSE IF page.is_dirty_
                   THEN Store(evicted, page.page_id_, page.data_)
                   ELSE Erase(evicted, page.page_id_)
         IN  IF last'.op = "NewPage" THEN Erase(ev, last'.page_id) ELSE ev
    ELSE evicted

NextBytes ==
    \/ \E t \in Threads : NewPage(t) /\ evicted' = NoteEviction /\ UNCHANGED pins
    \/ \E t \in Threads, page_id \in CallPageIds :
           FetchPage(t, page_id) /\ evicted' = NoteEviction /\ UNCHANGED pins
    \/ \E t \in Threads, page_id \in CallPageIds, is_dirty \in BOOLEAN :
           UnpinPage(t, page_id, is_dirty) /\ UNCHANGED <<evicted, pins>>
    \/ \E t \in Threads, page_id \in CallPageIds :
           FlushPage(t, page_id) /\ UNCHANGED <<evicted, pins>>
    \/ \E t \in Threads, frame_id \in Frames, bytes \in Data :
           CallerWrite(t, frame_id, bytes)

SpecBytes == Init /\ [][NextBytes]_vars

(***************************************************************************)
(* Claims about the buffer pool manager                                    *)
(***************************************************************************)
FreeFrames  == {free_list_[i] : i \in 1 .. Len(free_list_)}
TableFrames == {page_table_[p] : p \in DOMAIN page_table_}

\* the step just taken picked a host frame: NewPage succeeded, or FetchPage
\* succeeded for a page that was not in the page table
PickedHost ==
    /\ last'.ok
    /\ \/ last'.op = "NewPage" /\ next_page_id_' # next_page_id_
       \/ last'.op = "FetchPage" /\ ~InTable(page_table_, last'.page_id)
                                 /\ pages_' # pages_

\* no frame can host a page: the free list is empty and every frame is pinned
Exhausted == free_list_ = <<>> /\ \A f \in Frames : pages_[f].pin_count_ > 0

\* C3: between calls, the free list and the frames the page table maps to are
\* disjoint, together they are all the frames, and
\* |page_table_| + |free_list_| = pool_size_.
C3_Partition ==
    latch_ = {} =>
        /\ FreeFrames \cap TableFrames = {}
        /\ FreeFrames \cup TableFrames = Frames
        /\ Cardinality(DOMAIN page_table_) + Len(free_list_) = PoolSize

\* C4: right after NewPage returned page id p in frame f, the page table maps
\* p to f, frame f holds p with pin_count_ 1 and is_dirty_ false, and the
\* replacer tracks f as not evictable.
C4_NewPagePostcondition ==
    (last.op = "NewPage" /\ last.ok) =>
        /\ InTable(page_table_, last.page_id)
        /\ page_table_[last.page_id] = last.frame_id
        /\ pages_[last.frame_id].page_id_ = last.page_id
        /\ pages_[last.frame_id].pin_count_ = 1
        /\ ~pages_[last.frame_id].is_dirty_
        /\ Has(replacer_.node_store_, last.frame_id)
        /\ ~replacer_.node_store_[last.frame_id].is_evictable_

\* no step picks as host a frame whose pin_count_ is positive
HostNotPinned ==
    PickedHost => pages_[last'.frame_id].pin_count_ = 0

\* a page a caller holds a pin on is in the page table, and the step leaves it
\* in the same frame with the same bytes
HeldPageStays(page_id) ==
    pins[page_id] > 0 =>
        /\ InTable(page_table_, page_id)
        /\ InTable(page_table_', page_id)
        /\ page_table_'[page_id] = page_table_[page_id]
        /\ pages_'[page_table_[page_id]].page_id_ = page_id
        /\ pages_'[page_table_[page_id]].data_
               = pages_[page_table_[page_id]].data_

\* C5: NewPage and FetchPage never pick as host a frame whose pin_count_ is
\* positive, and a page stays in its frame, with its bytes, through every step
\* taken while a caller holds a pin on it.
C5_PinnedFramesNeverReused ==
    [][HostNotPinned /\ \A page_id \in PageIds : HeldPageStays(page_id)]_vars

\* FetchPage's miss: the page id passed the INVALID_PAGE_ID test and is not in
\* the page table
Miss(page_id) ==
    page_id # INVALID_PAGE_ID /\ ~InTable(page_table_, page_id)

\* C7: NewPage, and FetchPage of a page that is not resident, return nullptr
\* exactly when the free list is empty and every frame is pinned, and then
\* they change nothing; when they succeed the host is a frame of the pool.
C7_Step ==
    \A t \in Threads :
        /\ NewPage(t) =>
               /\ ~last'.ok <=> Exhausted
               /\ ~last'.ok => UNCHANGED <<replacer_, pages_, page_table_,
                                           free_list_, next_page_id_, disk>>
               /\ last'.ok => last'.frame_id \in Frames
        /\ \A p \in CallPageIds :
               (FetchPage(t, p) /\ Miss(p)) =>
                   /\ ~last'.ok <=> Exhausted
                   /\ ~last'.ok => UNCHANGED <<replacer_, pages_, page_table_,
                                               free_list_, next_page_id_, disk>>
                   /\ last'.ok => last'.frame_id \in Frames

\* C7: every NewPage and FetchPage fails exactly when no frame can be had.
C7_CapacityExhaustion == [][C7_Step]_vars

\* NewPage has just returned nullptr with every frame pinned
C7_Witness ==
    /\ last = Returned("NewPage", FALSE)
    /\ Exhausted
    /\ Cardinality(DOMAIN page_table_) > 0

\* C8: FlushAllPages, called with a resident page, returns with latch_
\* released: it is never stopped at the relock of latch_ inside FlushPage.
C8_FlushAllPagesCompletes ==
    \A t \in Threads :
        /\ pc[t] \notin RelockOutcomes
        /\ ~(pc[t] = "FlushPage_lock" /\ latch_ = {t})

\* UnpinPage(page_id, .) has nothing to unpin: the id is INVALID_PAGE_ID, the
\* page is not resident, or its frame's pin_count_ is 0
NothingToUnpin(page_id) ==
    \/ page_id = INVALID_PAGE_ID
    \/ ~InTable(page_table_, page_id)
    \/ pages_[page_table_[page_id]].pin_count_ = 0

C13_Step ==
    \A t \in Threads, page_id \in CallPageIds, is_dirty \in BOOLEAN :
        (last'.op = "UnpinPage" /\ UnpinPage(t, page_id, is_dirty)) =>
            /\ \A f \in Frames : pages_'[f].pin_count_ >= 0
            /\ IF NothingToUnpin(page_id)
               THEN /\ ~last'.ok
                    /\ UNCHANGED <<replacer_, pages_, page_table_, free_list_,
                                   next_page_id_, disk>>
               ELSE LET frame_id == page_table_[page_id] IN
                    /\ last'.ok
                    /\ pages_'[frame_id].pin_count_
                           = pages_[frame_id].pin_count_ - 1
                    /\ \A f \in Frames \ {frame_id} : pages_'[f] = pages_[f]
                    /\ IF pages_'[frame_id].pin_count_ = 0
                       THEN /\ Has(replacer_'.node_store_, frame_id)
                            /\ replacer_'.node_store_[frame_id].is_evictable_
                       ELSE replacer_' = replacer_

\* C13: UnpinPage returns false and changes nothing when the page id is
\* INVALID_PAGE_ID, not resident, or at pin_count_ 0; otherwise it returns true,
\* takes one from that frame's pin_count_ and makes the frame evictable exactly
\* when the count reaches 0; no pin_count_ goes below 0.
C13_UnpinPageContract == [][C13_Step]_vars

\* UnpinPage has just returned false for a resident page whose count is 0
C13_Witness ==
    /\ last = Returned("UnpinPage", FALSE)
    /\ \E page_id \in DOMAIN page_table_ :
           LET frame_id == page_table_[page_id] IN
           /\ pages_[frame_id].pin_count_ = 0
           /\ Has(replacer_.node_store_, frame_id)
           /\ replacer_.node_store_[frame_id].is_evictable_

(***************************************************************************)
(* Claims about the bytes of the pages (SpecBytes)                         *)
(***************************************************************************)
\* C6: when a step reassigns a frame whose page is dirty, the disk afterwards
\* holds the old page's bytes under the old page id; and a FetchPage that
\* brings back a page evicted dirty reads the bytes it had at its eviction.
C6_Step ==
    PickedHost =>
        LET victim == pages_[last'.frame_id] IN
        /\ victim.is_dirty_ => disk'[victim.page_id_] = victim.data_
        /\ (last'.op = "FetchPage" /\ Has(evicted, last'.page_id)) =>
               pages_'[last'.frame_id].data_ = evicted[last'.page_id]

\* C6: every step that reuses a dirty frame writes its bytes to disk first.
C6_DirtyWriteBack == [][C6_Step]_vars

\* FetchPage has just brought back, with its bytes, a page evicted dirty
C6_Witness ==
    /\ last.op = "FetchPage"
    /\ last.ok
    /\ last.from_evict
    /\ last.wrote_back
    /\ Has(evicted, last.page_id)
    /\ evicted[last.page_id] # 0
    /\ pages_[last.frame_id].data_ = evicted[last.page_id]
    /\ pages_[last.frame_id].pin_count_ = 1

\* the frames of the page table whose page is not pinned
UnpinnedTableFrames == {f \in TableFrames : pages_[f].pin_count_ = 0}

\* C20: between calls, every frame in the image of the page table is tracked by
\* the replacer and is evictable exactly when its pin count is 0, no frame of
\* the free list is tracked, and Size() is the number of page-table frames with
\* pin count 0.
C20_ReplacerCoherence ==
    latch_ = {} =>
        /\ \A f \in TableFrames :
               /\ Has(replacer_.node_store_, f)
               /\ replacer_.node_store_[f].is_evictable_
                      <=> pages_[f].pin_count_ = 0
        /\ \A f \in FreeFrames : ~Has(replacer_.node_store_, f)
        /\ Size(replacer_) = Cardinality(UnpinnedTableFrames)

\* DeletePage has just put frame 1 on the free list and the replacer has
\* forgotten it, while frame 0 holds a page that UnpinPage made evictable
C20_Witness ==
    /\ last = Returned("DeletePage", TRUE)
    /\ latch_ = {}
    /\ free_list_ = <<1>>
    /\ ~Has(replacer_.node_store_, 1)
    /\ TableFrames = {0}
    /\ pages_[0].pin_count_ = 0
    /\ replacer_.node_store_[0].is_evictable_
    /\ Size(replacer_) = 1

(***************************************************************************)
(* Two threads that call the buffer pool and its guard helpers.  A helper  *)
(* is two steps: FetchPage, whose lock_guard gives latch_ back when it     *)
(* returns, and then the RLatch() or WLatch() of the page, which waits     *)
(* until the page's rwlatch_ admits the caller.  FetchPageBasic and        *)
(* NewPageGuarded latch nothing: their steps are FetchPage's and NewPage's.*)
(* A guard that goes away unlatches the page (Unlatch) and unpins it       *)
(* (UnpinPage); a thread holds one latch at a time.                        *)
(***************************************************************************)
GuardThreads == {1, 2}

\* what FetchPage leaves of latch_ when it returns to the helper of thread t
HeldAfterFetchPageKept(t) == {t}

HeldAfterFetchPage(t) == {}

Latched(t) ==
    \E f \in Frames : t \in rwlatch_[f].readers \cup rwlatch_[f].writer

\* auto page = FetchPage(page_id); if (page != nullptr) page->?Latch() comes next
FetchPageGuarded(t, page_id, latch) ==
    /\ ~Latched(t)
    /\ FetchPageBody(t, page_id)
    /\ IF last'.ok
       THEN /\ pc' = [pc EXCEPT ![t] = latch]
            /\ latching' = [latching EXCEPT ![t] = <<last'.frame_id>>]
            /\ latch_' = HeldAfterFetchPage(t)
       ELSE UNCHANGED <<pc, latching, latch_>>
    /\ UNCHANGED <<rwlatch_, evicted, pins, root_, nodes, lru, nops>>

FetchPageRead(t, page_id) == FetchPageGuarded(t, page_id, "RLatch")

FetchPageWrite(t, page_id) == FetchPageGuarded(t, page_id, "WLatch")

\* page->RLatch(): a shared lock, granted while no writer holds the latch
CanRLatch(frame_id) == rwlatch_[frame_id].writer = {}

\* page->WLatch(): an exclusive lock, granted while nobody holds the latch
CanWLatch(frame_id) ==
    rwlatch_[frame_id].writer = {} /\ rwlatch_[frame_id].readers = {}

LatchUnchanged ==
    UNCHANGED <<replacer_, pages_, page_table_, free_list_, next_page_id_,
                disk, latch_, evicted, pins, root_, nodes, lru, nops, last>>

RLatch(t) ==
    /\ pc[t] = "RLatch"
    /\ CanRLatch(latching[t][1])
    /\ rwlatch_' = [rwlatch_ EXCEPT ![latching[t][1]].readers = @ \cup {t}]
    /\ pc' = [pc EXCEPT ![t] = "idle"]
    /\ latching' = [latching EXCEPT ![t] = <<>>]
    /\ LatchUnchanged

WLatch(t) ==
    /\ pc[t] = "WLatch"
    /\ CanWLatch(latching[t][1])
    /\ rwlatch_' = [rwlatch_ EXCEPT ![latching[t][1]].writer = {t}]
    /\ pc' = [pc EXCEPT ![t] = "idle"]
    /\ latching' = [latching EXCEPT ![t] = <<>>]
    /\ LatchUnchanged

\* the guard of thread t goes away: page->RUnlatch() or page->WUnlatch()
Unlatch(t) ==
    /\ pc[t] = "idle"
    /\ Latched(t)
    /\ rwlatch_' = [f \in Frames |->
                       [readers |-> rwlatch_[f].readers \ {t},
                        writer  |-> rwlatch_[f].writer \ {t}]]
    /\ UNCHANGED <<pc, latching>>
    /\ LatchUnchanged

InitGuards ==
    /\ replacer_ = ReplacerInit
    /\ pages_ = [f \in Frames |-> EmptyPage]
    /\ page_table_ = EmptyMap
    /\ free_list_ = InitialFreeList
    /\ next_page_id_ = 0
    /\ disk = [p \in PageIds |-> 0]
    /\ latch_ = {}
    /\ pc = [t \in GuardThreads |-> "idle"]
    /\ evicted = EmptyMap
    /\ pins = [p \in PageIds |-> 0]
    /\ root_ = <<>>
    /\ nodes = <<>>
    /\ lru = NewLru
    /\ rwlatch_ = [f \in Frames |-> Unlatched]
    /\ latching = [t \in GuardThreads |-> <<>>]
    /\ nops = 0
    /\ last = Returned("Init", TRUE)

\* the page ids the two threads pass: resident or not, allocated or not, and
\* the invalid one; the dirty flag plays no part in the locking
GuardPageIds == {INVALID_PAGE_ID, 0, 1}

NextGuards ==
    \/ \E t \in GuardThreads : NewPage(t) /\ UNCHANGED <<evicted, pins>>
    \/ \E t \in GuardThreads, page_id \in GuardPageIds :
           FetchPage(t, page_id) /\ UNCHANGED <<evicted, pins>>
    \/ \E t \in GuardThreads, page_id \in GuardPageIds, is_dirty \in {FALSE} :
           UnpinPage(t, page_id, is_dirty) /\ UNCHANGED <<evicted, pins>>
    \/ \E t \in GuardThreads, page_id \in GuardPageIds :
           FlushPage(t, page_id) /\ UNCHANGED <<evicted, pins>>
    \/ \E t \in GuardThreads :
           FlushAllPagesLock(t) /\ UNCHANGED <<evicted, pins>>
    \/ \E t \in GuardThreads :
           FlushAllPagesLoop(t) /\ UNCHANGED <<evicted, pins>>
    \/ \E t \in GuardThreads :
           FlushPageRelock(t) /\ UNCHANGED <<evicted, pins>>
    \/ \E t \in GuardThreads, page_id \in GuardPageIds :
           DeletePage(t, page_id) /\ UNCHANGED <<evicted, pins>>
    \/ \E t \in GuardThreads, page_id \in GuardPageIds :
           FetchPageRead(t, page_id)
    \/ \E t \in GuardThreads, page_id \in GuardPageIds :
           FetchPageWrite(t, page_id)
    \/ \E t \in GuardThreads : RLatch(t)
    \/ \E t \in GuardThreads : WLatch(t)
    \/ \E t \in GuardThreads : Unlatch(t)

SpecGuards == InitGuards /\ [][NextGuards]_vars

\* thread t waits for a page latch that is not granted
BlockedOnPageLatch(t) ==
    \/ pc[t] = "RLatch" /\ ~CanRLatch(latching[t][1])
    \/ pc[t] = "WLatch" /\ ~CanWLatch(latching[t][1])

\* no thread that is at a page latch holds latch_, and a thread that is blocked
\* there leaves every idle thread able to lock latch_ unless a third party
\* holds it
LatchOrder ==
    \A t \in GuardThreads :
        /\ pc[t] \in {"RLatch", "WLatch"} => t \notin latch_
        /\ BlockedOnPageLatch(t) =>
               \A u \in GuardThreads \ {t} :
                   (pc[u] = "idle" /\ latch_ \subseteq {t}) => CanLock(u)

\* the replacer is entered only in a step of a thread that has locked latch_:
\* nobody else holds it and the thread is inside none of its own calls
ReplacerUnderLatch ==
    replacer_' # replacer_ =>
        /\ latch_ = {}
        /\ \E t \in GuardThreads : pc[t] = "idle"

\* C18: a thread waits for a page latch only after FetchPage has given latch_
\* back, the replacer is entered only by a thread that has locked latch_, and
\* a thread blocked on a page latch keeps no other thread from locking latch_.
C18_LockOrdering == []LatchOrder /\ [][ReplacerUnderLatch]_vars

\* thread 1 is blocked in WLatch() on a page that thread 2 holds latched, and a
\* FlushPage has returned true since
C18_Witness ==
    /\ BlockedOnPageLatch(1)
    /\ pc[1] = "WLatch"
    /\ 2 \in rwlatch_[latching[1][1]].readers
    /\ pc[2] = "idle"
    /\ latch_ = {}
    /\ last = Returned("FlushPage", TRUE)

(***************************************************************************)
(* The buffer pool on a database file that holds the pages of an earlier   *)
(* run, with bytes that differ from a zeroed page: what NewPage zeroes and *)
(* what FetchPage reads can be told apart, and so can a page on disk that  *)
(* was written from one that was not.  FlushAllPages is left out (it       *)
(* changes no page before it stops).                                       *)
(***************************************************************************)
InitDelete ==
    /\ replacer_ = ReplacerInit
    /\ pages_ = [f \in Frames |-> EmptyPage]
    /\ page_table_ = EmptyMap
    /\ free_list_ = InitialFreeList
    /\ next_page_id_ = 0
    /\ disk = [p \in PageIds |-> 1]
    /\ latch_ = {}
    /\ pc = [t \in Threads |-> "idle"]
    /\ evicted = EmptyMap
    /\ pins = [p \in PageIds |-> 0]
    /\ root_ = <<>>
    /\ nodes = <<>>
    /\ lru = NewLru
    /\ rwlatch_ = [f \in Frames |-> Unlatched]
    /\ latching = [t \in Threads |-> <<>>]
    /\ nops = 0
    /\ last = Returned("Init", TRUE)

\* history: the bytes of the page the last call dropped, if it was a
\* DeletePage of a dirty page
NoteDeletion(page_id) ==
    IF /\ InTable(page_table_, page_id)
       /\ pages_[page_table_[page_id]].pin_count_ = 0
       /\ pages_[page_table_[page_id]].is_dirty_
    THEN Store(EmptyMap, page_id, pages_[page_table_[page_id]].data_)
    ELSE EmptyMap

\* history: the bytes of the page the last call left dirty, if it was an
\* UnpinPage(page_id, false) that returned a pin of a dirty page
NoteUnpin(page_id, is_dirty) ==
    IF /\ ~is_dirty
       /\ page_id # INVALID_PAGE_ID
       /\ InTable(page_table_, page_id)
       /\ pages_[page_table_[page_id]].pin_count_ > 0
       /\ pages_[page_table_[page_id]].is_dirty_
    THEN Store(EmptyMap, page_id, pages_[page_table_[page_id]].data_)
    ELSE EmptyMap

NextDelete ==
    \/ \E t \in Threads :
           NewPage(t) /\ evicted' = EmptyMap /\ UNCHANGED pins
    \/ \E t \in Threads, page_id \in CallPageIds :
           FetchPage(t, page_id) /\ evicted' = EmptyMap /\ UNCHANGED pins
    \/ \E t \in Threads, page_id \in CallPageIds, is_dirty \in BOOLEAN :
           /\ UnpinPage(t, page_id, is_dirty)
           /\ evicted' = NoteUnpin(page_id, is_dirty)
           /\ UNCHANGED pins
    \/ \E t \in Threads, page_id \in CallPageIds :
           FlushPage(t, page_id) /\ evicted' = EmptyMap /\ UNCHANGED pins
    \/ \E t \in Threads, page_id \in CallPageIds :
           /\ DeletePage(t, page_id)
           /\ evicted' = NoteDeletion(page_id)
           /\ UNCHANGED pins

SpecDelete == InitDelete /\ [][NextDelete]_vars

(***************************************************************************)
(* Claims about DeletePage (SpecDelete)                                    *)
(***************************************************************************)
C14_Step ==
    \A t \in Threads, page_id \in CallPageIds :
        (last'.op = "DeletePage" /\ DeletePage(t, page_id)) =>
            /\ disk' = disk
            /\ IF ~InTable(page_table_, page_id)
               THEN /\ last'.ok
                    /\ UNCHANGED <<replacer_, pages_, page_table_, free_list_,
                                   next_page_id_>>
               ELSE LET frame_id == page_table_[page_id] IN
                    IF pages_[frame_id].pin_count_ > 0
                    THEN /\ ~last'.ok
                         /\ UNCHANGED <<replacer_, pages_, page_table_,
                                        free_list_, next_page_id_>>
                    ELSE /\ last'.ok
                         /\ page_table_' = TableErase(page_table_, page_id)
                         /\ ~Has(replacer_'.node_store_, frame_id)
                         /\ free_list_' = Append(free_list_, frame_id)
                         /\ pages_'[frame_id].page_id_ = INVALID_PAGE_ID
                         /\ pages_'[frame_id].pin_count_ = 0
                         /\ ~pages_'[frame_id].is_dirty_
                         /\ \A f \in Frames \ {frame_id} : pages_'[f] = pages_[f]

\* C14: DeletePage returns true and changes nothing for a page that is not
\* resident, returns false and changes nothing for a pinned page, and otherwise
\* takes the page out of the page table, has the replacer forget the frame,
\* resets the frame and appends it to the free list; it never writes to disk.
C14_DeletePageContract == [][C14_Step]_vars

\* DeletePage has just deleted a dirty page whose bytes differ from what the
\* disk holds for it, and the disk still holds the old bytes
C14_Witness ==
    /\ last = Returned("DeletePage", TRUE)
    /\ \E page_id \in DOMAIN evicted :
           /\ ~InTable(page_table_, page_id)
           /\ disk[page_id] # evicted[page_id]
    /\ free_list_ = <<1>>
    /\ pages_[1] = EmptyPage
    /\ ~Has(replacer_.node_store_, 1)

\* frame_id holds a dirty page
HoldsDirtyPage(frame_id) ==
    /\ pages_[frame_id].page_id_ # INVALID_PAGE_ID
    /\ pages_[frame_id].is_dirty_

\* the step flushed the frame: FlushPage of an id that the page table maps to it
FlushedBy(frame_id) ==
    /\ last'.op = "FlushPage"
    /\ last'.ok
    /\ \E page_id \in PageIds :
           /\ InTable(page_table_, page_id)
           /\ page_table_[page_id] = frame_id
           /\ disk'[page_id] = pages_[frame_id].data_

\* the step gave the frame to another page and wrote the old page to disk
WrittenBackBy(frame_id) ==
    /\ last'.op \in {"NewPage", "FetchPage"}
    /\ last'.ok
    /\ last'.frame_id = frame_id
    /\ last'.wrote_back
    /\ disk'[pages_[frame_id].page_id_] = pages_[frame_id].data_

\* the step deleted the page of the frame
DeletedBy(frame_id) ==
    /\ last'.op = "DeletePage"
    /\ last'.ok
    /\ pages_'[frame_id].page_id_ = INVALID_PAGE_ID
    /\ frame_id = Back(free_list_')

C19_Step ==
    \A frame_id \in Frames :
        HoldsDirtyPage(frame_id) =>
            \/ /\ pages_'[frame_id].is_dirty_
               /\ pages_'[frame_id].page_id_ = pages_[frame_id].page_id_
            \/ FlushedBy(frame_id)
            \/ WrittenBackBy(frame_id)
            \/ DeletedBy(frame_id)

\* C19: a frame that holds a dirty page keeps the page and the flag over every
\* step (UnpinPage with is_dirty false and FetchPage hits included) except a
\* FlushPage of the page, a DeletePage of it, or the step that gives the frame
\* to another page, which writes the page's bytes to disk first.
C19_DirtyFlagSticky == [][C19_Step]_vars

\* UnpinPage(page_id, false) has just returned true on a dirty page whose bytes
\* differ from those on disk, and the page is still dirty
C19_Witness ==
    /\ last.op = "UnpinPage"
    /\ last.ok
    /\ \E page_id \in PageIds :
           /\ Has(evicted, page_id)
           /\ InTable(page_table_, page_id)
           /\ pages_[page_table_[page_id]].page_id_ = page_id
           /\ pages_[page_table_[page_id]].is_dirty_
           /\ pages_[page_table_[page_id]].pin_count_ = 0
           /\ pages_[page_table_[page_id]].data_ # disk[page_id]

(***************************************************************************)
(* The replacer on its own: any sequence of calls of its public methods.   *)
(* last.before is the replacer as Evict found it.                          *)
(***************************************************************************)
ReplacerResult(op, ok, frame_id, before) ==
    [op |-> op, ok |-> ok, frame_id |-> frame_id, before |-> before]

BpmUnchanged ==
    UNCHANGED <<pages_, page_table_, free_list_, next_page_id_, disk, latch_,
                pc, evicted, pins, root_, nodes, rwlatch_, latching, nops>>

\* frame ids handed to the replacer: the frames and one id that is out of range
CallFrameIds == 0 .. PoolSize

CallRecordAccess(frame_id) ==
    /\ replacer_.current_timestamp_ < MaxTime
    /\ IF InvalidFrame(frame_id)
       THEN /\ last' = ReplacerResult("RecordAccess", FALSE, frame_id,
                                      ReplacerInit)
            /\ UNCHANGED replacer_
       ELSE /\ replacer_' = RecordAccess(replacer_, frame_id)
            /\ last' = ReplacerResult("RecordAccess", TRUE, frame_id,
                                      ReplacerInit)
    /\ BpmUnchanged

CallSetEvictable(frame_id, set_evictable) ==
    /\ IF InvalidFrame(frame_id)
       THEN /\ last' = ReplacerResult("SetEvictable", FALSE, frame_id,
                                      ReplacerInit)
            /\ UNCHANGED replacer_
       ELSE /\ replacer_' = SetEvictable(replacer_, frame_id, set_evictable)
            /\ last' = ReplacerResult("SetEvictable", TRUE, frame_id,
                                      ReplacerInit)
    /\ BpmUnchanged

CallRemove(frame_id) ==
    /\ IF InvalidFrame(frame_id)
       THEN /\ last' = ReplacerResult("Remove", FALSE, frame_id, ReplacerInit)
            /\ UNCHANGED replacer_
       ELSE /\ replacer_' = Remove(replacer_, frame_id)
            /\ last' = ReplacerResult("Remove", TRUE, frame_id, ReplacerInit)
    /\ BpmUnchanged

CallEvict ==
    /\ \E order \in ScanOrders(replacer_) :
           LET e == Evict(replacer_, order) IN
           /\ replacer_' = e.r
           /\ last' = ReplacerResult("Evict", e.ok, e.frame_id, replacer_)
    /\ BpmUnchanged

InitReplacer ==
    /\ replacer_ = ReplacerInit
    /\ pages_ = [f \in Frames |-> EmptyPage]
    /\ page_table_ = EmptyMap
    /\ free_list_ = InitialFreeList
    /\ next_page_id_ = 0
    /\ disk = [p \in PageIds |-> 0]
    /\ latch_ = {}
    /\ pc = [t \in Threads |-> "idle"]
    /\ evicted = EmptyMap
    /\ pins = [p \in PageIds |-> 0]
    /\ root_ = <<>>
    /\ nodes = <<>>
    /\ lru = NewLru
    /\ rwlatch_ = [f \in Frames |-> Unlatched]
    /\ latching = [t \in Threads |-> <<>>]
    /\ nops = 0
    /\ last = ReplacerResult("Init", TRUE, INVALID_PAGE_ID, ReplacerInit)

NextReplacer ==
    \/ \E frame_id \in CallFrameIds :
           CallRecordAccess(frame_id) /\ UNCHANGED lru
    \/ \E frame_id \in CallFrameIds, set_evictable \in BOOLEAN :
           CallSetEvictable(frame_id, set_evictable) /\ UNCHANGED lru
    \/ \E frame_id \in CallFrameIds : CallRemove(frame_id) /\ UNCHANGED lru
    \/ CallEvict /\ UNCHANGED lru

SpecReplacer == InitReplacer /\ [][NextReplacer]_vars

(***************************************************************************)
(* Claims about the replacer (SpecReplacer)                                *)
(***************************************************************************)
Evictable(r) == {f \in Tracked(r) : r.node_store_[f].is_evictable_}
FewerThanK(r) == {f \in Evictable(r) : Len(r.node_store_[f].history_) < K}

\* the K-th most recent access of a frame with K recorded accesses: history_
\* holds the last K timestamps, oldest first
KthMostRecent(r, f) == Front(r.node_store_[f].history_)

\* C1: when every evictable frame has K recorded accesses, Evict returns the
\* evictable frame whose K-th most recent access is the earliest.
C1_EvictsLargestBackwardKDistance ==
    (/\ last.op = "Evict"
     /\ last.ok
     /\ Evictable(last.before) # {}
     /\ FewerThanK(last.before) = {}) =>
        /\ last.frame_id \in Evictable(last.before)
        /\ \A f \in Evictable(last.before) :
               KthMostRecent(last.before, last.frame_id)
                   <= KthMostRecent(last.before, f)

\* C2: when some evictable frame has fewer than K recorded accesses, Evict
\* returns such a frame, the one whose first access is the earliest, whatever
\* order node_store_ is scanned in.
C2_EvictsEarliestOfFewerThanK ==
    (/\ last.op = "Evict"
     /\ FewerThanK(last.before) # {}) =>
        /\ last.ok
        /\ last.frame_id \in FewerThanK(last.before)
        /\ \A f \in FewerThanK(last.before) :
               Front(last.before.node_store_[last.frame_id].history_)
                   <= Front(last.before.node_store_[f].history_)

\* C11: Remove of a tracked frame that is not evictable aborts and leaves
\* node_store_ and curr_size_ as they were: Remove deletes evictable nodes only.
C11_RemoveNonEvictableAborts ==
    [][\A frame_id \in Frames :
           (/\ CallRemove(frame_id)
            /\ Has(replacer_.node_store_, frame_id)
            /\ ~replacer_.node_store_[frame_id].is_evictable_) =>
               /\ ~last'.ok
               /\ UNCHANGED replacer_]_vars

\* C12: Size() is the number of tracked frames whose is_evictable_ is true, it
\* never goes below 0, and Evict returns false exactly when that number is 0.
C12_SizeCountsEvictable ==
    /\ Size(replacer_) = Cardinality(Evictable(replacer_))
    /\ Size(replacer_) >= 0
    /\ last.op = "Evict" =>
           (~last.ok <=> Cardinality(Evictable(last.before)) = 0)

\* Evict has just taken one of two evictable frames
C12_Witness ==
    /\ last.op = "Evict"
    /\ last.ok
    /\ Cardinality(Evictable(last.before)) = 2
    /\ Size(replacer_) = 1

(***************************************************************************)
(* The replacer constructed with k = 1, next to the reference LRU replacer *)
(* that is given the same calls.                                           *)
(***************************************************************************)
InitLRU ==
    /\ replacer_ = NewReplacer(1)
    /\ pages_ = [f \in Frames |-> EmptyPage]
    /\ page_table_ = EmptyMap
    /\ free_list_ = InitialFreeList
    /\ next_page_id_ = 0
    /\ disk = [p \in PageIds |-> 0]
    /\ latch_ = {}
    /\ pc = [t \in Threads |-> "idle"]
    /\ evicted = EmptyMap
    /\ pins = [p \in PageIds |-> 0]
    /\ root_ = <<>>
    /\ nodes = <<>>
    /\ lru = NewLru
    /\ rwlatch_ = [f \in Frames |-> Unlatched]
    /\ latching = [t \in Threads |-> <<>>]
    /\ nops = 0
    /\ last = ReplacerResult("Init", TRUE, INVALID_PAGE_ID, NewReplacer(1))

NextLRU ==
    \/ \E frame_id \in CallFrameIds :
           /\ CallRecordAccess(frame_id)
           /\ lru' = IF InvalidFrame(frame_id) THEN lru
                     ELSE LruRecordAccess(lru, frame_id)
    \/ \E frame_id \in CallFrameIds, set_evictable \in BOOLEAN :
           /\ CallSetEvictable(frame_id, set_evictable)
           /\ lru' = IF InvalidFrame(frame_id) THEN lru
                     ELSE LruSetEvictable(lru, frame_id, set_evictable)
    \/ \E frame_id \in CallFrameIds :
           /\ CallRemove(frame_id)
           /\ lru' = IF InvalidFrame(frame_id) THEN lru
                     ELSE LruRemove(lru, frame_id)
    \/ /\ CallEvict
       /\ lru' = LruEvict(lru).l

SpecLRU == InitLRU /\ [][NextLRU]_vars

\* C17: with k = 1 every Evict returns what the reference LRU replacer returns
\* for the same calls: the evictable frame whose most recent access is the
\* oldest, or nothing when the reference has no evictable frame.
C17_KOneIsLRU ==
    [][(last'.op = "Evict" /\ lru.alive) =>
           /\ last'.ok = LruEvict(lru).ok
           /\ last'.frame_id = LruEvict(lru).frame_id]_vars

\* Evict chose frame 1 although frame 0 was the first to be accessed: frame 0
\* has been accessed again since
C17_Witness ==
    /\ replacer_.k_ = 1
    /\ lru.alive
    /\ last.op = "Evict"
    /\ last.ok
    /\ last.frame_id = 1
    /\ Evictable(last.before) = {0, 1}
    /\ last.before.node_store_[0].history_ = <<2>>
    /\ last.before.node_store_[1].history_ = <<1>>

(***************************************************************************)
(* Trie.  A pointer to a node is <<>> (nullptr) or <<node>>; a node has    *)
(* is_value_node_, children_ (a map from characters to nodes) and, when it *)
(* is a TrieNodeWithValue<T>, value_ = <<T, the value>> (<<>> otherwise).  *)
(* Clone() copies a node with its value and children, so a cloned node is  *)
(* the node itself here.                                                   *)
(***************************************************************************)
Chars == {"a", "b"}

RECURSIVE KeysOfLength(_)
KeysOfLength(n) ==
    IF n = 0 THEN {<<>>}
    ELSE {<<c>> \o k : c \in Chars, k \in KeysOfLength(n - 1)}

Keys == UNION {KeysOfLength(n) : n \in 0 .. MaxKeyLen}

\* the value types Put and Get are instantiated for, and the values put
Types  == {"uint32_t", "uint64_t"}
Values == {<<"uint32_t", 1>>, <<"uint64_t", 2>>}

\* std::make_shared<TrieNode>(children) and TrieNodeWithValue<T>(children, value)
TrieNode(children) ==
    [is_value_node_ |-> FALSE, value_ |-> <<>>, children_ |-> children]
TrieNodeWithValue(children, value) ==
    [is_value_node_ |-> TRUE, value_ |-> value, children_ |-> children]

\* Get's loop: the node the key leads to, or nullptr
RECURSIVE Walk(_, _)
Walk(ptr, key) ==
    IF key = <<>> THEN ptr
    ELSE IF ptr = <<>> \/ ~Has(ptr[1].children_, Head(key)) THEN <<>>
    ELSE Walk(<<ptr[1].children_[Head(key)]>>, Tail(key))

\* Get<T>: the dynamic_cast to TrieNodeWithValue<T> fails on a plain node and
\* on a value of another type; the result is nullptr (<<>>) or the value
Get(root, key, T) ==
    LET node == Walk(root, key) IN
    IF node = <<>> THEN <<>>
    ELSE IF node[1].is_value_node_ /\ node[1].value_[1] = T
    THEN node[1].value_
    ELSE <<>>

\* PutCycle: the node new_root after the call
RECURSIVE PutCycle(_, _, _)
PutCycle(new_root, key, value) ==
    LET c == Head(key) IN
    IF Has(new_root.children_, c)
    THEN IF Len(key) > 1
         THEN [new_root EXCEPT !.children_[c] = PutCycle(@, Tail(key), value)]
         ELSE [new_root EXCEPT !.children_[c] =
                   TrieNodeWithValue(@.children_, value)]
    ELSE IF Len(key) = 1
         THEN [new_root EXCEPT !.children_ =
                   Store(@, c, TrieNodeWithValue(EmptyMap, value))]
         ELSE [new_root EXCEPT !.children_ =
                   Store(@, c, PutCycle(TrieNode(EmptyMap), Tail(key), value))]

\* Put with an empty key reads root_->children_ without testing root_
PutDereferencesNull(root, key) == key = <<>> /\ root = <<>>

\* Put where it does not dereference a null root_: the root of the new Trie
Put(root, key, value) ==
    IF key = <<>>
    THEN IF root[1].children_ = EmptyMap
         THEN <<TrieNodeWithValue(EmptyMap, value)>>
         ELSE <<TrieNodeWithValue(root[1].children_, value)>>
    ELSE <<PutCycle(IF root = <<>> THEN TrieNode(EmptyMap) ELSE root[1],
                    key, value)>>

\* RemoveCycle: [flag: its return value, node: new_rootty after the call]
RECURSIVE RemoveCycle(_, _)
RemoveCycle(new_rootty, key) ==
    LET c == Head(key) IN
    IF ~Has(new_rootty.children_, c)
    THEN [flag |-> FALSE, node |-> new_rootty]
    ELSE LET child == new_rootty.children_[c] IN
         IF Len(key) = 1
         THEN IF ~child.is_value_node_
              THEN [flag |-> FALSE, node |-> new_rootty]
              ELSE IF child.children_ = EmptyMap
              THEN [flag |-> TRUE,
                    node |-> [new_rootty EXCEPT !.children_ = Erase(@, c)]]
              ELSE [flag |-> TRUE,
                    node |-> [new_rootty EXCEPT !.children_[c] =
                                  TrieNode(child.children_)]]
         ELSE LET sub == RemoveCycle(child, Tail(key)) IN
              IF ~sub.flag
              THEN [flag |-> FALSE, node |-> new_rootty]
              ELSE IF sub.node.children_ = EmptyMap
                      /\ ~sub.node.is_value_node_
              THEN [flag |-> TRUE,
                    node |-> [new_rootty EXCEPT !.children_ = Erase(@, c)]]
              ELSE [flag |-> TRUE,
                    node |-> [new_rootty EXCEPT !.children_[c] = sub.node]]

\* Remove: the root of the Trie it returns
Remove_(root, key) ==
    IF root = <<>> THEN root
    ELSE IF key = <<>>
    THEN IF root[1].is_value_node_
         THEN IF root[1].children_ = EmptyMap
              THEN <<>>
              ELSE <<TrieNode(root[1].children_)>>
         ELSE root
    ELSE LET r == RemoveCycle(root[1], key) IN
         IF ~r.flag THEN root
         ELSE IF r.node.children_ = EmptyMap /\ ~r.node.is_value_node_
         THEN <<>>
         ELSE <<r.node>>

\* history: the last call, its arguments, the root it was called on and
\* whether it returned
TrieResult(op, key, value, before, returned) ==
    [op |-> op, key |-> key, value |-> value, before |-> before,
     returned |-> returned]

\* dereferencing the null root_ is undefined behaviour: the read faults, or a
\* library built with assertions aborts in shared_ptr::operator->
NullDereferenceOutcomes == {"segfault", "abort"}

Running == \A t \in Threads : pc[t] = "idle"

TrieUnchanged ==
    UNCHANGED <<replacer_, pages_, page_table_, free_list_, next_page_id_,
                disk, latch_, evicted, pins, nodes, lru, rwlatch_,
                latching>>

TriePut(key, value) ==
    /\ Running
    /\ nops < MaxOps
    /\ nops' = nops + 1
    /\ IF PutDereferencesNull(root_, key)
       THEN /\ \E outcome \in NullDereferenceOutcomes :
                   pc' = [t \in Threads |-> outcome]
            /\ last' = TrieResult("Put", key, value, root_, FALSE)
            /\ UNCHANGED root_
       ELSE /\ root_' = Put(root_, key, value)
            /\ last' = TrieResult("Put", key, value, root_, TRUE)
            /\ UNCHANGED pc
    /\ TrieUnchanged

TrieRemove(key) ==
    /\ Running
    /\ nops < MaxOps
    /\ nops' = nops + 1
    /\ root_' = Remove_(root_, key)
    /\ last' = TrieResult("Remove", key, <<>>, root_, TRUE)
    /\ UNCHANGED pc
    /\ TrieUnchanged

InitTrie ==
    /\ replacer_ = ReplacerInit
    /\ pages_ = [f \in Frames |-> EmptyPage]
    /\ page_table_ = EmptyMap
    /\ free_list_ = InitialFreeList
    /\ next_page_id_ = 0
    /\ disk = [p \in PageIds |-> 0]
    /\ latch_ = {}
    /\ pc = [t \in Threads |-> "idle"]
    /\ evicted = EmptyMap
    /\ pins = [p \in PageIds |-> 0]
    /\ root_ = <<>>
    /\ nodes = <<>>
    /\ lru = NewLru
    /\ rwlatch_ = [f \in Frames |-> Unlatched]
    /\ latching = [t \in Threads |-> <<>>]
    /\ nops = 0
    /\ last = TrieResult("Init", <<>>, <<>>, <<>>, TRUE)

NextTrie ==
    \/ \E key \in Keys, value \in Values : TriePut(key, value)
    \/ \E key \in Keys : TrieRemove(key)

SpecTrie == InitTrie /\ [][NextTrie]_vars

(***************************************************************************)
(* Claims about the Trie (SpecTrie)                                        *)
(***************************************************************************)
\* the key-value set of a Trie: the keys that lead to a value node, each with
\* its type and value
KeyValues(root) ==
    {<<k, Walk(root, k)[1].value_>> :
        k \in {x \in Keys : Walk(root, x) # <<>>
                            /\ Walk(root, x)[1].is_value_node_}}

\* C9: Put(k, v) on any Trie, the empty one included, with any key, the empty
\* one included, returns a Trie on which Get<T>(k) is v.
C9_PutGetRoundTrip ==
    last.op = "Put" =>
        /\ last.returned
        /\ Get(root_, last.key, last.value[1]) = last.value

\* C10: t.Put(k, v).Remove(k) has the key-value set of t.
C10_PutThenRemove ==
    last.op = "Put" =>
        /\ last.returned
        /\ KeyValues(Remove_(root_, last.key)) = KeyValues(last.before)
\* C16: Put(k, .) and Remove(k) return a Trie on which Get of every other key,
\* prefixes and extensions of k and the empty key included, is what it was.
C16_OnlyOwnKeyTouched ==
    last.op \in {"Put", "Remove"} =>
        /\ last.returned
        /\ \A key \in Keys \ {last.key}, T \in Types :
               Get(root_, key, T) = Get(last.before, key, T)

(***************************************************************************)
(* The Trie with its nodes as objects of a heap.  nodes is the sequence of *)
(* the TrieNode objects ever made, an address is an index into it, a       *)
(* pointer is <<>> (nullptr) or <<address>>, and children_ maps characters *)
(* to addresses.  Put and Remove make new objects and assign to children_  *)
(* of objects, exactly where the code does; a Trie is the root_ pointer it *)
(* was made with, and earlier Tries keep their root_.                      *)
(***************************************************************************)
\* TrieNode::Clone(): a new object with the same value and children_
Clone(h, ptr) == [h |-> Append(h, h[ptr]), ptr |-> Len(h) + 1]

\* std::make_shared of a node: the new object and its address
MakeShared(h, node) == [h |-> Append(h, node), ptr |-> Len(h) + 1]

\* Get's loop on the heap: the pointer the key leads to
RECURSIVE HeapWalk(_, _, _)
HeapWalk(h, ptr, key) ==
    IF key = <<>> THEN ptr
    ELSE IF ptr = <<>> \/ ~Has(h[ptr[1]].children_, Head(key)) THEN <<>>
    ELSE HeapWalk(h, <<h[ptr[1]].children_[Head(key)]>>, Tail(key))

\* Get<T> of the Trie with root pointer root
HeapGet(h, root, key, T) ==
    LET node == HeapWalk(h, root, key) IN
    IF node = <<>> THEN <<>>
    ELSE IF h[node[1]].is_value_node_ /\ h[node[1]].value_[1] = T
    THEN h[node[1]].value_
    ELSE <<>>

\* PutCycle on the object at new_root: the heap after the call
RECURSIVE HeapPutCycle(_, _, _, _)
HeapPutCycle(h, new_root, key, value) ==
    LET c == Head(key) IN
    IF Has(h[new_root].children_, c)
    THEN LET child == h[new_root].children_[c] IN
         IF Len(key) > 1
         THEN LET cl == Clone(h, child)
                  h2 == HeapPutCycle(cl.h, cl.ptr, Tail(key), value)
              IN  [h2 EXCEPT ![new_root].children_[c] = cl.ptr]
         ELSE LET m == MakeShared(h, TrieNodeWithValue(h[child].children_,
                                                       value))
              IN  [m.h EXCEPT ![new_root].children_[c] = m.ptr]
    ELSE IF Len(key) = 1
         THEN LET m == MakeShared(h, TrieNodeWithValue(EmptyMap, value))
              IN  [m.h EXCEPT ![new_root].children_ = Store(@, c, m.ptr)]
         ELSE LET m == MakeShared(h, TrieNode(EmptyMap))
                  h2 == HeapPutCycle(m.h, m.ptr, Tail(key), value)
              IN  [h2 EXCEPT ![new_root].children_ = Store(@, c, m.ptr)]

\* PutRoot with the Clone() left out: PutCycle works on the old root itself
PutRootShared(h, root) ==
    IF root = <<>> THEN MakeShared(h, TrieNode(EmptyMap))
    ELSE [h |-> h, ptr |-> root[1]]

\* Put, non-empty key: new_root is a new TrieNode or root_->Clone()
PutRoot(h, root) ==
    IF root = <<>> THEN MakeShared(h, TrieNode(EmptyMap))
    ELSE Clone(h, root[1])

\* Put where it does not dereference a null root_: [h, root] afterwards
HeapPut(h, root, key, value) ==
    IF key = <<>>
    THEN LET m == MakeShared(h,
                      IF h[root[1]].children_ = EmptyMap
                      THEN TrieNodeWithValue(EmptyMap, value)
                      ELSE TrieNodeWithValue(h[root[1]].children_, value))
         IN  [h |-> m.h, root |-> <<m.ptr>>]
    ELSE LET r == PutRoot(h, root)
         IN  [h |-> HeapPutCycle(r.h, r.ptr, key, value), root |-> <<r.ptr>>]

\* RemoveCycle on the object at new_rootty: [flag, h]
RECURSIVE HeapRemoveCycle(_, _, _)
HeapRemoveCycle(h, new_rootty, key) ==
    LET c == Head(key) IN
    IF ~Has(h[new_rootty].children_, c)
    THEN [flag |-> FALSE, h |-> h]
    ELSE LET child == h[new_rootty].children_[c] IN
         IF Len(key) = 1
         THEN IF ~h[child].is_value_node_
              THEN [flag |-> FALSE, h |-> h]
              ELSE IF h[child].children_ = EmptyMap
              THEN [flag |-> TRUE,
                    h |-> [h EXCEPT ![new_rootty].children_ = Erase(@, c)]]
              ELSE LET m == MakeShared(h, TrieNode(h[child].children_))
                   IN  [flag |-> TRUE,
                        h |-> [m.h EXCEPT ![new_rootty].children_[c] = m.ptr]]
         ELSE LET cl == Clone(h, child)
                  sub == HeapRemoveCycle(cl.h, cl.ptr, Tail(key))
              IN  IF ~sub.flag
                  THEN [flag |-> FALSE, h |-> sub.h]
                  ELSE IF sub.h[cl.ptr].children_ = EmptyMap
                          /\ ~sub.h[cl.ptr].is_value_node_
                  THEN [flag |-> TRUE,
                        h |-> [sub.h EXCEPT
                                  ![new_rootty].children_ = Erase(@, c)]]
                  ELSE [flag |-> TRUE,
                        h |-> [sub.h EXCEPT
                                  ![new_rootty].children_[c] = cl.ptr]]

\* Remove: [h, root] afterwards
HeapRemove(h, root, key) ==
    IF root = <<>> THEN [h |-> h, root |-> root]
    ELSE IF key = <<>>
    THEN IF h[root[1]].is_value_node_
         THEN IF h[root[1]].children_ = EmptyMap
              THEN [h |-> h, root |-> <<>>]
              ELSE LET m == MakeShared(h, TrieNode(h[root[1]].children_))
                   IN  [h |-> m.h, root |-> <<m.ptr>>]
         ELSE [h |-> h, root |-> root]
    ELSE LET cl == Clone(h, root[1])
             r == HeapRemoveCycle(cl.h, cl.ptr, key)
         IN  IF ~r.flag THEN [h |-> r.h, root |-> root]
             ELSE IF r.h[cl.ptr].children_ = EmptyMap
                     /\ ~r.h[cl.ptr].is_value_node_
             THEN [h |-> r.h, root |-> <<>>]
             ELSE [h |-> r.h, root |-> <<cl.ptr>>]

HeapUnchanged ==
    UNCHANGED <<replacer_, pages_, page_table_, free_list_, next_page_id_,
                disk, latch_, evicted, pins, lru, rwlatch_, latching>>

\* t.Put(key, value) on the current Trie t; the Trie returned becomes current
HeapTriePut(key, value) ==
    /\ Running
    /\ nops < MaxOps
    /\ nops' = nops + 1
    /\ IF PutDereferencesNull(root_, key)
       THEN /\ \E outcome \in NullDereferenceOutcomes :
                   pc' = [t \in Threads |-> outcome]
            /\ last' = TrieResult("Put", key, value, root_, FALSE)
            /\ UNCHANGED <<root_, nodes>>
       ELSE LET r == HeapPut(nodes, root_, key, value) IN
            /\ nodes' = r.h
            /\ root_' = r.root
            /\ last' = TrieResult("Put", key, value, root_, TRUE)
            /\ UNCHANGED pc
    /\ HeapUnchanged

HeapTrieRemove(key) ==
    /\ Running
    /\ nops < MaxOps
    /\ nops' = nops + 1
    /\ LET r == HeapRemove(nodes, root_, key) IN
       /\ nodes' = r.h
       /\ root_' = r.root
    /\ last' = TrieResult("Remove", key, <<>>, root_, TRUE)
    /\ UNCHANGED pc
    /\ HeapUnchanged

NextHeap ==
    \/ \E key \in Keys, value \in Values : HeapTriePut(key, value)
    \/ \E key \in Keys : HeapTrieRemove(key)

SpecHeap == InitTrie /\ [][NextHeap]_vars

(***************************************************************************)
(* Claims about the Trie on the heap (SpecHeap)                            *)
(***************************************************************************)
\* C15: Put and Remove on a Trie t leave every Get on t as it was: no object
\* that was on the heap before the call is changed by it.
C15_TrieVersionsImmutable ==
    [][/\ \A key \in Keys, T \in Types :
              HeapGet(nodes', root_, key, T) = HeapGet(nodes, root_, key, T)
       /\ SubSeq(nodes', 1, Len(nodes)) = nodes]_vars

\* Put or Remove has just returned a new Trie made from one that holds a
\* value under a key of two characters, and changed what that key leads to
C15_Witness ==
    /\ last.op \in {"Put", "Remove"}
    /\ last.returned
    /\ last.before # <<>>
    /\ root_ # last.before
    /\ \E key \in KeysOfLength(2) :
           /\ HeapWalk(nodes, last.before, key) # <<>>
           /\ nodes[HeapWalk(nodes, last.before, key)[1]].is_value_node_
           /\ HeapWalk(nodes, root_, key) # HeapWalk(nodes, last.before, key)
====
